---- MODULE Spec2Model ----
(***************************************************************************)
(* Nalanda library management: the borrow / return / renew lifecycle and   *)
(* the book inventory bookkeeping, modelled at the granularity of single   *)
(* database operations (one Mongoose read or write per step).              *)
(*                                                                         *)
(* A request handler is a sequence of awaits.  Every await is one database *)
(* operation; the synchronous code before and after it runs with it in one *)
(* step.  A loaded document is a snapshot; save() writes back only the     *)
(* paths whose value differs from the snapshot (Mongoose $set of modified  *)
(* paths), after validating the document held in memory.                   *)
(*                                                                         *)
(* Time is counted in ticks of half a day, so that the rounding up of      *)
(* partial days (Math.ceil) is observable.                                 *)
(***************************************************************************)
EXTENDS Integers, Sequences, FiniteSets, TLC

----------------------------------------------------------------------------
(* Bounds of the model *)

\* the clock runs from 0 to MaxTime ticks
MaxTime == 2
\* requests address the first ShelfSize titles of the catalogue and their loans
ShelfSize == 2
\* at most MaxNewLoans borrow requests are admitted beyond the seeded loans
MaxNewLoans == 2
\* an explicit due date lies 1..MaxDueOffset ticks after the request
MaxDueOffset == 1
\* updateBook sets totalCopies to a value in 1..MaxTotal
MaxTotal == 2
\* the renew specifications address the first MaxLoans loans of the store
MaxLoans == 1
\* the clock of the renew specifications runs over MaxPeriods loan periods
MaxPeriods == 2

----------------------------------------------------------------------------
(* Program constants *)

\* one day (1000 * 60 * 60 * 24 ms), in ticks
DAY == 2
\* the default loan period and the renewal extension, in days
LoanDays == 14
\* maximum number of concurrent loans of one user
BorrowLimit == 5
\* maximum number of renewals of one loan
RenewalLimit == 3
\* fine per day overdue
FinePerDay == 1

Procs == {"p1", "p2"}
Users == {"u1", "u2", "a1"}
\* the role of a user account when it is created
InitRole(u) == IF u = "a1" THEN "Admin" ELSE "Member"

\* an id that names no document
NoId == 0
NoDate == -1

Active == {"Borrowed", "Overdue"}

VARIABLES
  books,      \* Book collection: id -> document
  records,    \* BorrowRecord collection: sequence of documents, id = index
  users,      \* User collection: id -> document
  now,        \* the clock (new Date(), Date.now())
  pc,         \* per request slot: the next database operation of its handler
  loc         \* per request slot: the handler's locals (req, loaded documents,
              \* and the outcome once it has responded)

vars == <<books, records, users, now, pc, loc>>

\* req.user.role: the role of the account as authentication loaded it
Role(u) == users[u].role

----------------------------------------------------------------------------
(* Book model: src/src/models/Book.js *)

\* schema validators of the paths the handlers modify
BookValid(doc) ==
  /\ doc.totalCopies >= 1
  /\ doc.availableCopies >= 0
  /\ doc.availableCopies <= doc.totalCopies
  /\ doc.borrowCount >= 0

isAvailable(doc) == doc.availableCopies > 0 /\ doc.isActive

borrowCopy(doc) ==
  IF doc.availableCopies > 0
  THEN [doc EXCEPT !.availableCopies = @ - 1, !.borrowCount = @ + 1]
  ELSE doc

returnCopy(doc) ==
  IF doc.availableCopies < doc.totalCopies
  THEN [doc EXCEPT !.availableCopies = @ + 1]
  ELSE doc

\* a save that applies counter changes as increments of the stored value
SaveDocIncrement(stored, loaded, doc) ==
  [f \in DOMAIN stored |->
     IF doc[f] = loaded[f] THEN stored[f]
     ELSE IF f \in {"availableCopies", "borrowCount", "renewalCount"}
          THEN stored[f] + (doc[f] - loaded[f])
          ELSE doc[f]]

\* doc.save() of a loaded document: $set of the modified paths only
SaveDoc(stored, loaded, doc) ==
  [f \in DOMAIN stored |-> IF doc[f] # loaded[f] THEN doc[f] ELSE stored[f]]

----------------------------------------------------------------------------
(* BorrowRecord model: src/src/models/BorrowRecord.js *)

NewRecord(u, b, due, t) ==
  [user |-> u, book |-> b, borrowDate |-> t, dueDate |-> due,
   returnDate |-> NoDate, status |-> "Borrowed", renewalCount |-> 0,
   fine |-> 0]

RecordValid(doc) ==
  /\ doc.dueDate > doc.borrowDate
  /\ (doc.returnDate = NoDate \/ doc.returnDate >= doc.borrowDate)
  /\ doc.renewalCount >= 0 /\ doc.renewalCount <= RenewalLimit
  /\ doc.fine >= 0

isOverdue(doc, t) ==
  IF doc.status = "Returned" \/ doc.status = "Lost" THEN FALSE
  ELSE t > doc.dueDate

\* Math.ceil(x / d) for x >= 0
CeilDiv(x, d) == (x + d - 1) \div d

Abs(x) == IF x < 0 THEN -x ELSE x

daysOverdue(doc, t) ==
  IF doc.status = "Returned" \/ doc.status = "Lost" \/ ~isOverdue(doc, t)
  THEN 0
  ELSE CeilDiv(Abs(t - doc.dueDate), DAY)

calculateFine(doc, t) == daysOverdue(doc, t) * FinePerDay

\* borrowRecord.returnBook(): the status is set before isOverdue is read
recReturnBook(doc, t) ==
  LET d1 == [doc EXCEPT !.returnDate = t, !.status = "Returned"]
  IN  IF isOverdue(d1, t) THEN [d1 EXCEPT !.fine = calculateFine(d1, t)]
      ELSE d1

\* borrowRecord.renewBook() below the renewal limit (at the limit it throws)
recRenewBook(doc) ==
  [doc EXCEPT !.dueDate = @ + LoanDays * DAY, !.renewalCount = @ + 1]

\* pre('save') hook
preSave(doc, t) ==
  IF doc.status = "Borrowed" /\ isOverdue(doc, t)
  THEN [doc EXCEPT !.status = "Overdue"]
  ELSE doc

----------------------------------------------------------------------------
(* Queries *)

RecIds == 1 .. Len(records)

ActiveOfUser(u) == {i \in RecIds : records[i].user = u /\ records[i].status \in Active}
ActiveOfBook(b) == {i \in RecIds : records[i].book = b /\ records[i].status \in Active}
ActiveOfPair(u, b) == ActiveOfUser(u) \cap ActiveOfBook(b)

----------------------------------------------------------------------------
(* Initial state *)

\* the catalogue: titles alternate between one and two copies
InitTotal(b) == IF b % 2 = 0 THEN 2 ELSE 1

\* member u1 already holds BorrowLimit - 1 loans, taken at time 0 with the
\* default period, of titles beyond the shelf
SeedUser == "u1"
SeedCount == BorrowLimit - 1
SeedBook(i) == ShelfSize + i
NumBooks == ShelfSize + SeedCount
Books == 1 .. NumBooks
Shelf == 1 .. ShelfSize
SeedBooks == Books \ Shelf

NullBook == [totalCopies |-> 0, availableCopies |-> 0, borrowCount |-> 0,
             isActive |-> FALSE]
NullRec == NewRecord("", NoId, NoDate, NoDate)

\* a user account as registration or createUser stores it
NewUser(u) == [name |-> "n0", password |-> "pw0", role |-> InitRole(u),
               isActive |-> TRUE]
NullUser == [name |-> "", password |-> "", role |-> "", isActive |-> FALSE]
\* bookDoc, recDoc: documents as loaded; bookNew, recNew: the same documents
\* after the handler's changes, as handed to save() or create()
\* what a report answers: the records listed, their count, a count per member
NullReport == [ids |-> {}, total |-> 0, perUser |-> [u \in Users |-> 0]]
\* target, userDoc, userNew: the account a user request addresses, as loaded
\* and as handed to save()
IdleLoc == [op |-> "none", outcome |-> "none", user |-> "", book |-> NoId,
            rec |-> NoId, due |-> NoDate, bookDoc |-> NullBook, bookNew |-> NullBook,
            recDoc |-> NullRec, recNew |-> NullRec, report |-> NullReport,
            target |-> "", userDoc |-> NullUser, userNew |-> NullUser]

Init ==
  /\ books = [b \in Books |->
       IF b \in SeedBooks
       THEN [totalCopies |-> InitTotal(b), availableCopies |-> InitTotal(b) - 1,
             borrowCount |-> 1, isActive |-> TRUE]
       ELSE [totalCopies |-> InitTotal(b), availableCopies |-> InitTotal(b),
             borrowCount |-> 0, isActive |-> TRUE]]
  /\ records = [i \in 1 .. SeedCount |->
                  NewRecord(SeedUser, SeedBook(i), LoanDays * DAY, 0)]
  /\ users = [u \in Users |-> NewUser(u)]
  /\ now = 0
  /\ pc = [p \in Procs |-> "idle"]
  /\ loc = [p \in Procs |-> IdleLoc]

----------------------------------------------------------------------------
(* Handler plumbing *)

\* the handler sends its response
Respond(p, l, outcome) ==
  /\ pc' = [pc EXCEPT ![p] = "done"]
  /\ loc' = [loc EXCEPT ![p] = [l EXCEPT !.outcome = outcome]]

\* the handler goes on to its next database operation
Goto(p, label, l) ==
  /\ pc' = [pc EXCEPT ![p] = label]
  /\ loc' = [loc EXCEPT ![p] = l]

\* the request is over: its locals are dropped
Finish(p) ==
  /\ pc[p] = "done"
  /\ pc' = [pc EXCEPT ![p] = "idle"]
  /\ loc' = [loc EXCEPT ![p] = IdleLoc]
  /\ UNCHANGED <<books, records, users, now>>

----------------------------------------------------------------------------
(* borrowBook: src/unnamed/part_004 (borrowController) *)

BorrowLabels == {"b_find", "b_count", "b_create", "b_save"}
BorrowsInFlight == {q \in Procs : pc[q] \in BorrowLabels}

\* the due dates a request may carry: none, or a date after the request
\* (borrowBookValidation: isAfter())
ExplicitDues == (now + 1) .. (now + MaxDueOffset)

\* book checks without the availability check
BorrowBookChecksNoAvailability(b) ==
  IF b \notin Books \/ ~books[b].isActive THEN "NotFound"
  ELSE "pass"

\* the checks on the book that Book.findById returned
BorrowBookChecks(b) ==
  IF b \notin Books \/ ~books[b].isActive THEN "NotFound"
  ELSE IF ~isAvailable(books[b]) THEN "Unavailable"
  ELSE "pass"

\* Book.findById, then the existence and availability checks
BorrowFindBook(p, u, b, due) ==
  /\ pc[p] = "idle"
  /\ Len(records) + Cardinality(BorrowsInFlight) < SeedCount + MaxNewLoans
  /\ LET doc == IF b \in Books THEN books[b] ELSE NullBook
         l   == [IdleLoc EXCEPT !.op = "borrow", !.user = u, !.book = b,
                                !.due = due, !.bookDoc = doc]
         chk == BorrowBookChecks(b)
     IN  IF chk # "pass" THEN Respond(p, l, chk) ELSE Goto(p, "b_find", l)
  /\ UNCHANGED <<books, records, users, now>>

\* BorrowRecord.findOne: an unreturned loan of this book by this user
BorrowFindExisting(p) ==
  /\ pc[p] = "b_find"
  /\ IF ActiveOfPair(loc[p].user, loc[p].book) # {}
     THEN Respond(p, loc[p], "DuplicateLoan")
     ELSE Goto(p, "b_count", loc[p])
  /\ UNCHANGED <<books, records, users, now>>

\* a limit check that is off by one
LimitReachedOffByOne(activeBorrows) == activeBorrows > BorrowLimit

\* the borrowing limit check on the count of the user's unreturned loans
LimitReached(activeBorrows) == activeBorrows >= BorrowLimit

\* BorrowRecord.countDocuments, the limit check, and the new document built
\* for BorrowRecord.create (defaults, validation, pre-save hook)
BorrowCount(p) ==
  /\ pc[p] = "b_count"
  /\ LET activeBorrows == Cardinality(ActiveOfUser(loc[p].user))
         borrowDueDate == IF loc[p].due # NoDate THEN loc[p].due
                          ELSE now + LoanDays * DAY
         doc == NewRecord(loc[p].user, loc[p].book, borrowDueDate, now)
     IN  IF LimitReached(activeBorrows)
         THEN Respond(p, loc[p], "BorrowLimitReached")
         ELSE IF ~RecordValid(doc) THEN Respond(p, loc[p], "ValidationError")
         ELSE Goto(p, "b_create", [loc[p] EXCEPT !.recNew = preSave(doc, now)])
  /\ UNCHANGED <<books, records, users, now>>

\* the insert of BorrowRecord.create, then book.borrowCopy() on the loaded book
BorrowCreate(p) ==
  /\ pc[p] = "b_create"
  /\ records' = Append(records, loc[p].recNew)
  /\ LET doc == borrowCopy(loc[p].bookDoc)
     IN  IF ~BookValid(doc) THEN Respond(p, loc[p], "ValidationError")
         ELSE Goto(p, "b_save", [loc[p] EXCEPT !.rec = Len(records) + 1,
                                               !.bookNew = doc])
  /\ UNCHANGED <<books, users, now>>

\* book.save()
BorrowSaveBook(p) ==
  /\ pc[p] = "b_save"
  /\ books' = [books EXCEPT ![loc[p].book] =
                 SaveDoc(@, loc[p].bookDoc, loc[p].bookNew)]
  /\ Respond(p, loc[p], "OK")
  /\ UNCHANGED <<records, users, now>>

\* the dates a request may carry that are not after the request
PastDues == 0 .. now

\* borrowBookValidation: dueDate is optional and must be after now
DueDateValid(due) == due = NoDate \/ due > now

\* POST /api/borrow: borrowBookValidation and handleValidationErrors, then
\* the handler
RestBorrowBook(p, u, b, due) ==
  IF DueDateValid(due)
  THEN BorrowFindBook(p, u, b, due)
  ELSE /\ pc[p] = "idle"
       /\ Respond(p, [IdleLoc EXCEPT !.op = "borrow", !.user = u, !.book = b,
                                     !.due = due], "ValidationError")
       /\ UNCHANGED <<books, records, users, now>>

\* Mutation.borrowBook (src/unnamed/part_003): the statements of the REST
\* handler, with no validation in front of them
GraphqlBorrowBook(p, u, b, due) == BorrowFindBook(p, u, b, due)

----------------------------------------------------------------------------
(* returnBook: src/unnamed/part_004 (borrowController) *)

\* return checks without the already-returned check
ReturnChecksNoStatus(u, id) ==
  IF id \notin RecIds THEN "NotFound"
  ELSE IF records[id].user # u /\ Role(u) # "Admin" THEN "Forbidden"
  ELSE "pass"

\* return checks without the ownership check
ReturnChecksNoOwner(u, id) ==
  IF id \notin RecIds THEN "NotFound"
  ELSE IF records[id].status = "Returned" THEN "AlreadyReturned"
  ELSE "pass"

\* the checks on the record that BorrowRecord.findById returned
ReturnChecks(u, id) ==
  IF id \notin RecIds THEN "NotFound"
  ELSE IF records[id].user # u /\ Role(u) # "Admin" THEN "Forbidden"
  ELSE IF records[id].status = "Returned" THEN "AlreadyReturned"
  ELSE "pass"

\* BorrowRecord.findById, the checks, borrowRecord.returnBook()
ReturnFindRecord(p, u, id) ==
  /\ pc[p] = "idle"
  /\ LET doc == IF id \in RecIds THEN records[id] ELSE NullRec
         l   == [IdleLoc EXCEPT !.op = "return", !.user = u, !.rec = id,
                                !.book = doc.book, !.recDoc = doc]
         new == preSave(recReturnBook(doc, now), now)
         chk == ReturnChecks(u, id)
     IN  IF chk # "pass" THEN Respond(p, l, chk)
         ELSE IF ~RecordValid(new) THEN Respond(p, l, "ValidationError")
         ELSE Goto(p, "r_save", [l EXCEPT !.recNew = new])
  /\ UNCHANGED <<books, records, users, now>>

\* borrowRecord.save()
ReturnSaveRecord(p) ==
  /\ pc[p] = "r_save"
  /\ records' = [records EXCEPT ![loc[p].rec] =
                   SaveDoc(@, loc[p].recDoc, loc[p].recNew)]
  /\ Goto(p, "r_book", loc[p])
  /\ UNCHANGED <<books, users, now>>

\* Book.findById, then book.returnCopy()
ReturnFindBook(p) ==
  /\ pc[p] = "r_book"
  /\ LET doc == books[loc[p].book]
         new == returnCopy(doc)
     IN  IF ~BookValid(new) THEN Respond(p, loc[p], "ValidationError")
         ELSE Goto(p, "r_bsave", [loc[p] EXCEPT !.bookDoc = doc, !.bookNew = new])
  /\ UNCHANGED <<books, records, users, now>>

\* book.save()
ReturnSaveBook(p) ==
  /\ pc[p] = "r_bsave"
  /\ books' = [books EXCEPT ![loc[p].book] =
                 SaveDoc(@, loc[p].bookDoc, loc[p].bookNew)]
  /\ Respond(p, loc[p], "OK")
  /\ UNCHANGED <<records, users, now>>

----------------------------------------------------------------------------
(* renewBook: src/unnamed/part_004 (borrowController) *)

\* renew checks without the limit check of borrowRecord.renewBook()
RenewChecksNoLimit(u, id) ==
  IF id \notin RecIds THEN "NotFound"
  ELSE IF records[id].user # u THEN "Forbidden"
  ELSE IF records[id].status # "Borrowed" /\ records[id].status # "Overdue"
       THEN "NotRenewable"
  ELSE "pass"

\* renew checks that let an administrator renew another user's loan
RenewChecksAdminAllowed(u, id) ==
  IF id \notin RecIds THEN "NotFound"
  ELSE IF records[id].user # u /\ Role(u) # "Admin" THEN "Forbidden"
  ELSE IF records[id].status # "Borrowed" /\ records[id].status # "Overdue"
       THEN "NotRenewable"
  ELSE IF records[id].renewalCount >= RenewalLimit THEN "RenewalLimitReached"
  ELSE "pass"

\* the checks on the record that BorrowRecord.findById returned, and the
\* limit check of borrowRecord.renewBook(), whose throw the handler catches
RenewChecks(u, id) ==
  IF id \notin RecIds THEN "NotFound"
  ELSE IF records[id].user # u THEN "Forbidden"
  ELSE IF records[id].status # "Borrowed" /\ records[id].status # "Overdue"
       THEN "NotRenewable"
  ELSE IF records[id].renewalCount >= RenewalLimit THEN "RenewalLimitReached"
  ELSE "pass"

\* BorrowRecord.findById, the checks, borrowRecord.renewBook()
RenewFindRecord(p, u, id) ==
  /\ pc[p] = "idle"
  /\ LET doc == IF id \in RecIds THEN records[id] ELSE NullRec
         l   == [IdleLoc EXCEPT !.op = "renew", !.user = u, !.rec = id,
                                !.book = doc.book, !.recDoc = doc]
         new == preSave(recRenewBook(doc), now)
         chk == RenewChecks(u, id)
     IN  IF chk # "pass" THEN Respond(p, l, chk)
         ELSE IF ~RecordValid(new) THEN Respond(p, l, "ValidationError")
         ELSE Goto(p, "n_save", [l EXCEPT !.recNew = new])
  /\ UNCHANGED <<books, records, users, now>>

\* borrowRecord.save()
RenewSaveRecord(p) ==
  /\ pc[p] = "n_save"
  /\ records' = [records EXCEPT ![loc[p].rec] =
                   SaveDoc(@, loc[p].recDoc, loc[p].recNew)]
  /\ Respond(p, loc[p], "OK")
  /\ UNCHANGED <<books, users, now>>

----------------------------------------------------------------------------
(* updateBook, deleteBook: src/src/controllers/bookController.js *)

\* a total copies update that puts every copy back on the shelf
updateTotalCopiesReset(doc, totalCopies) ==
  [doc EXCEPT !.availableCopies = totalCopies, !.totalCopies = totalCopies]

\* the total copies update: the borrowed copies stay borrowed
updateTotalCopies(doc, totalCopies) ==
  LET borrowedCopies == doc.totalCopies - doc.availableCopies
  IN  [doc EXCEPT !.availableCopies = totalCopies - borrowedCopies,
                  !.totalCopies = totalCopies]

\* authorizeRoles('Admin'), Book.findById, the total copies update
UpdateFindBook(p, u, b, totalCopies) ==
  /\ pc[p] = "idle"
  /\ LET doc == IF b \in Books THEN books[b] ELSE NullBook
         borrowedCopies == doc.totalCopies - doc.availableCopies
         new == updateTotalCopies(doc, totalCopies)
         l   == [IdleLoc EXCEPT !.op = "update", !.user = u, !.book = b,
                                !.bookDoc = doc, !.bookNew = new]
     IN  IF Role(u) # "Admin" THEN Respond(p, l, "Forbidden")
         ELSE IF b \notin Books THEN Respond(p, l, "NotFound")
         ELSE IF totalCopies < borrowedCopies THEN Respond(p, l, "CapacityExceeded")
         ELSE IF ~BookValid(new) THEN Respond(p, l, "ValidationError")
         ELSE Goto(p, "ub_save", l)
  /\ UNCHANGED <<books, records, users, now>>

\* book.save()
UpdateSaveBook(p) ==
  /\ pc[p] = "ub_save"
  /\ books' = [books EXCEPT ![loc[p].book] =
                 SaveDoc(@, loc[p].bookDoc, loc[p].bookNew)]
  /\ Respond(p, loc[p], "OK")
  /\ UNCHANGED <<records, users, now>>

\* a deactivation that also takes the copies off the shelf
deactivateAndClear(doc) == [doc EXCEPT !.isActive = FALSE, !.availableCopies = 0]

\* the soft delete: book.isActive = false
deactivate(doc) == [doc EXCEPT !.isActive = FALSE]

\* authorizeRoles('Admin'), Book.findById, the borrowed copies check
DeleteFindBook(p, u, b) ==
  /\ pc[p] = "idle"
  /\ LET doc == IF b \in Books THEN books[b] ELSE NullBook
         new == deactivate(doc)
         l   == [IdleLoc EXCEPT !.op = "delete", !.user = u, !.book = b,
                                !.bookDoc = doc, !.bookNew = new]
     IN  IF Role(u) # "Admin" THEN Respond(p, l, "Forbidden")
         ELSE IF b \notin Books THEN Respond(p, l, "NotFound")
         ELSE IF doc.availableCopies < doc.totalCopies
              THEN Respond(p, l, "HasBorrowedCopies")
         ELSE IF ~BookValid(new) THEN Respond(p, l, "ValidationError")
         ELSE Goto(p, "db_save", l)
  /\ UNCHANGED <<books, records, users, now>>

\* book.save()
DeleteSaveBook(p) ==
  /\ pc[p] = "db_save"
  /\ books' = [books EXCEPT ![loc[p].book] =
                 SaveDoc(@, loc[p].bookDoc, loc[p].bookNew)]
  /\ Respond(p, loc[p], "OK")
  /\ UNCHANGED <<records, users, now>>

----------------------------------------------------------------------------
(* User accounts: src/unnamed/part_004 (userController),                     *)
(* src/src/controllers/authController.js, src/unnamed/part_003 (resolvers)   *)

\* the body of an update request: the fields it defines and their values
UserInputs == [defined : SUBSET {"name", "role", "isActive"},
               name : {"n1"}, role : {"Admin", "Member"}, isActive : BOOLEAN]
Passwords == {"pw0", "pw1"}

\* Object.assign(doc, input): every field the input defines is copied
Assign(doc, input) ==
  [f \in DOMAIN doc |-> IF f \in input.defined THEN input[f] ELSE doc[f]]

\* authenticateToken, and the GraphQL context: the account must be active
Authenticated(u) == users[u].isActive

\* the handler has loaded account t and goes on to save it as new
UserSave(p, op, u, t, new) ==
  Goto(p, "u_save", [IdleLoc EXCEPT !.op = op, !.user = u, !.target = t,
                                    !.userDoc = users[t], !.userNew = new])

\* the handler refuses a user request
UserRefuse(p, op, u, t, outcome) ==
  Respond(p, [IdleLoc EXCEPT !.op = op, !.user = u, !.target = t], outcome)

\* PUT /api/auth/me: name and email are taken from the body, nothing else
RestUpdateProfile(p, u, input) ==
  /\ pc[p] = "idle"
  /\ IF ~Authenticated(u) THEN UserRefuse(p, "updateProfile", u, u, "Unauthenticated")
     ELSE UserSave(p, "updateProfile", u, u,
                   [users[u] EXCEPT !.name = IF "name" \in input.defined
                                             THEN input.name ELSE @])
  /\ UNCHANGED <<books, records, users, now>>

\* Mutation.updateProfile(input: UserUpdateInput): Object.assign(currentUser, input)
GraphqlUpdateProfile(p, u, input) ==
  /\ pc[p] = "idle"
  /\ IF ~Authenticated(u) THEN UserRefuse(p, "updateProfile", u, u, "Unauthenticated")
     ELSE UserSave(p, "updateProfile", u, u, Assign(users[u], input))
  /\ UNCHANGED <<books, records, users, now>>

\* the permission checks of updateUser, the same in both handlers
UpdateUserChecks(u, t, input) ==
  IF ~Authenticated(u) THEN "Unauthenticated"
  ELSE IF u # t /\ Role(u) # "Admin" THEN "Forbidden"
  ELSE IF Role(u) # "Admin" /\ ("role" \in input.defined \/ "isActive" \in input.defined)
       THEN "Forbidden"
  ELSE "pass"

\* PUT /api/users/:id
RestUpdateUser(p, u, t, input) ==
  /\ pc[p] = "idle"
  /\ LET chk == UpdateUserChecks(u, t, input)
         named == [users[t] EXCEPT !.name = IF "name" \in input.defined
                                             THEN input.name ELSE @]
         new == IF Role(u) = "Admin"
                THEN [named EXCEPT
                        !.role = IF "role" \in input.defined THEN input.role ELSE @,
                        !.isActive = IF "isActive" \in input.defined
                                     THEN input.isActive ELSE @]
                ELSE named
     IN  IF chk # "pass" THEN UserRefuse(p, "updateUser", u, t, chk)
         ELSE UserSave(p, "updateUser", u, t, new)
  /\ UNCHANGED <<books, records, users, now>>

\* Mutation.updateUser: Object.assign(targetUser, input)
GraphqlUpdateUser(p, u, t, input) ==
  /\ pc[p] = "idle"
  /\ LET chk == UpdateUserChecks(u, t, input)
     IN  IF chk # "pass" THEN UserRefuse(p, "updateUser", u, t, chk)
         ELSE UserSave(p, "updateUser", u, t, Assign(users[t], input))
  /\ UNCHANGED <<books, records, users, now>>

\* PUT /api/auth/change-password and Mutation.changePassword
ChangePassword(p, u, currentPassword, newPassword) ==
  /\ pc[p] = "idle"
  /\ IF ~Authenticated(u) THEN UserRefuse(p, "changePassword", u, u, "Unauthenticated")
     ELSE IF users[u].password # currentPassword
          THEN UserRefuse(p, "changePassword", u, u, "WrongPassword")
     ELSE UserSave(p, "changePassword", u, u,
                   [users[u] EXCEPT !.password = newPassword])
  /\ UNCHANGED <<books, records, users, now>>

\* DELETE /api/users/:id and Mutation.deleteUser: Admin only, not oneself
DeleteUser(p, u, t) ==
  /\ pc[p] = "idle"
  /\ IF ~Authenticated(u) THEN UserRefuse(p, "deleteUser", u, t, "Unauthenticated")
     ELSE IF Role(u) # "Admin" THEN UserRefuse(p, "deleteUser", u, t, "Forbidden")
     ELSE IF u = t THEN UserRefuse(p, "deleteUser", u, t, "OwnAccount")
     ELSE UserSave(p, "deleteUser", u, t, [users[t] EXCEPT !.isActive = FALSE])
  /\ UNCHANGED <<books, records, users, now>>

\* user.save()
UserSaveDoc(p) ==
  /\ pc[p] = "u_save"
  /\ users' = [users EXCEPT ![loc[p].target] =
                 SaveDoc(@, loc[p].userDoc, loc[p].userNew)]
  /\ Respond(p, loc[p], "OK")
  /\ UNCHANGED <<books, records, now>>

----------------------------------------------------------------------------
(* Overdue reports: src/unnamed/part_004 (getOverdueBooks) and               *)
(* src/unnamed/part_005 (reportController)                                   *)

\* filter { $or: [ { status: 'Overdue' },
\*                 { status: 'Borrowed', dueDate: { $lt: new Date() } } ] }
OverdueFilter ==
  {i \in RecIds : \/ records[i].status = "Overdue"
                  \/ records[i].status = "Borrowed" /\ records[i].dueDate < now}

\* $sum: { $cond: [ { $eq: ['$status', 'Overdue'] }, 1, 0 ] } of a $group by user
OverdueBooksOf(u) ==
  Cardinality({i \in RecIds : records[i].user = u /\ records[i].status = "Overdue"})

\* authorizeRoles('Admin'), BorrowRecord.find(filter) and countDocuments(filter)
GetOverdueBooks(p, u) ==
  /\ pc[p] = "idle"
  /\ LET l == [IdleLoc EXCEPT !.op = "overdue", !.user = u]
     IN  IF Role(u) # "Admin" THEN Respond(p, l, "Forbidden")
         ELSE Respond(p, [l EXCEPT !.report.ids = OverdueFilter,
                                   !.report.total = Cardinality(OverdueFilter)],
                      "OK")
  /\ UNCHANGED <<books, records, users, now>>

\* authorizeRoles('Admin'), the overdueBooks count of the dashboard
GetDashboardStats(p, u) ==
  /\ pc[p] = "idle"
  /\ LET l == [IdleLoc EXCEPT !.op = "dashboard", !.user = u]
     IN  IF Role(u) # "Admin" THEN Respond(p, l, "Forbidden")
         ELSE Respond(p, [l EXCEPT !.report.total = Cardinality(OverdueFilter)],
                      "OK")
  /\ UNCHANGED <<books, records, users, now>>

\* authorizeRoles('Admin'), the overdueBooks column of the members report
GetActiveMembersReport(p, u) ==
  /\ pc[p] = "idle"
  /\ LET l == [IdleLoc EXCEPT !.op = "members", !.user = u]
     IN  IF Role(u) # "Admin" THEN Respond(p, l, "Forbidden")
         ELSE Respond(p, [l EXCEPT !.report.perUser =
                                     [v \in Users |-> OverdueBooksOf(v)]],
                      "OK")
  /\ UNCHANGED <<books, records, users, now>>

----------------------------------------------------------------------------
(* The clock *)

Tick ==
  /\ now < MaxTime
  /\ now' = now + 1
  /\ UNCHANGED <<books, records, users, pc, loc>>

----------------------------------------------------------------------------
(* Specifications *)

\* the ids a request may carry: a shelf title or one of its loans, or an id
\* that names nothing
BookIds == Shelf \cup {NoId}
RecordIds == {i \in RecIds : records[i].book \in Shelf} \cup {NoId}

BorrowRequest(p, dues) ==
  \E u \in Users, b \in BookIds, due \in dues : BorrowFindBook(p, u, b, due)

BorrowStep(p) ==
  \/ BorrowFindExisting(p)
  \/ BorrowCount(p)
  \/ BorrowCreate(p)
  \/ BorrowSaveBook(p)

ReturnRequest(p) ==
  \E u \in Users, id \in RecordIds : ReturnFindRecord(p, u, id)

ReturnStep(p) ==
  \/ ReturnSaveRecord(p)
  \/ ReturnFindBook(p)
  \/ ReturnSaveBook(p)

RenewRequest(p) ==
  \E u \in Users, id \in RecordIds : RenewFindRecord(p, u, id)

UpdateRequest(p) ==
  \E u \in Users, b \in BookIds, n \in 1 .. MaxTotal : UpdateFindBook(p, u, b, n)

DeleteRequest(p) ==
  \E u \in Users, b \in BookIds : DeleteFindBook(p, u, b)

\* no request is between two of its database operations
Quiescent == \A p \in Procs : pc[p] \in {"idle", "done"}

\* time passes between two requests: one loan period and a tick, so that a
\* due date one period ahead has just passed
TickLoanPeriod ==
  /\ Quiescent
  /\ now + LoanDays * DAY + 1 <= MaxPeriods * (LoanDays * DAY + 1)
  /\ now' = now + LoanDays * DAY + 1
  /\ UNCHANGED <<books, records, users, pc, loc>>

\* Spec: borrow and return requests, their database operations interleaved,
\* all within one tick of the clock
Next ==
  \E p \in Procs :
    \/ BorrowRequest(p, {NoDate})
    \/ BorrowStep(p)
    \/ ReturnRequest(p)
    \/ ReturnStep(p)
    \/ Finish(p)

Spec == Init /\ [][Next]_vars

\* SpecSeq: borrow and return requests, each run to completion before the
\* next begins, while the clock advances
SeqProcs == {"p1"}

NextSeq ==
  \/ \E p \in SeqProcs :
       \/ BorrowRequest(p, {NoDate} \cup ExplicitDues)
       \/ BorrowStep(p)
       \/ ReturnRequest(p)
       \/ ReturnStep(p)
       \/ Finish(p)
  \/ Tick

SpecSeq == Init /\ [][NextSeq]_vars

\* the ids a renew or return request of the renew specifications may carry
LoanIds == (1 .. MaxLoans) \cup {NoId}

LoanRenewRequest(p) ==
  \E u \in Users, id \in LoanIds : RenewFindRecord(p, u, id)

LoanReturnRequest(p) ==
  \E u \in Users, id \in LoanIds : ReturnFindRecord(p, u, id)

\* SpecRenew: renew and return requests for loans taken earlier, their
\* database operations interleaved, while loan periods go by
NextRenew ==
  \/ \E p \in Procs :
       \/ LoanRenewRequest(p)
       \/ RenewSaveRecord(p)
       \/ LoanReturnRequest(p)
       \/ ReturnStep(p)
       \/ Finish(p)
  \/ TickLoanPeriod

SpecRenew == Init /\ [][NextRenew]_vars

\* SpecRenewSeq: the same requests, each run to completion before the next
NextRenewSeq ==
  \/ \E p \in SeqProcs :
       \/ LoanRenewRequest(p)
       \/ RenewSaveRecord(p)
       \/ LoanReturnRequest(p)
       \/ ReturnStep(p)
       \/ Finish(p)
  \/ TickLoanPeriod

SpecRenewSeq == Init /\ [][NextRenewSeq]_vars

\* the accounts by role
Admins == {u \in Users : InitRole(u) = "Admin"}
Members == Users \ Admins

\* SpecDelete: the members' borrow and return requests and the
\* administrator's deleteBook requests for the titles of the shelf, their
\* database operations interleaved
NextDelete ==
  \E p \in Procs :
    \/ \E u \in Members, b \in Shelf : BorrowFindBook(p, u, b, NoDate)
    \/ BorrowStep(p)
    \/ \E u \in Members, id \in RecordIds \ {NoId} : ReturnFindRecord(p, u, id)
    \/ ReturnStep(p)
    \/ \E u \in Admins, b \in Shelf : DeleteFindBook(p, u, b)
    \/ DeleteSaveBook(p)
    \/ Finish(p)

SpecDelete == Init /\ [][NextDelete]_vars

\* SpecUpdate: the same with the administrator's updateBook requests
NextUpdate ==
  \E p \in Procs :
    \/ \E u \in Members, b \in Shelf : BorrowFindBook(p, u, b, NoDate)
    \/ BorrowStep(p)
    \/ \E u \in Members, id \in RecordIds \ {NoId} : ReturnFindRecord(p, u, id)
    \/ ReturnStep(p)
    \/ \E u \in Admins, b \in Shelf, n \in 1 .. MaxTotal : UpdateFindBook(p, u, b, n)
    \/ UpdateSaveBook(p)
    \/ Finish(p)

SpecUpdate == Init /\ [][NextUpdate]_vars

\* SpecInventorySeq: borrow, return, renew, updateBook and deleteBook requests
\* by any user, each run to completion before the next
NextInventorySeq ==
  \E p \in SeqProcs :
    \/ BorrowRequest(p, {NoDate})
    \/ BorrowStep(p)
    \/ ReturnRequest(p)
    \/ ReturnStep(p)
    \/ RenewRequest(p)
    \/ RenewSaveRecord(p)
    \/ UpdateRequest(p)
    \/ UpdateSaveBook(p)
    \/ DeleteRequest(p)
    \/ DeleteSaveBook(p)
    \/ Finish(p)

SpecInventorySeq == Init /\ [][NextInventorySeq]_vars

\* SpecApi: borrow requests through the REST route and through the GraphQL
\* mutation, with any due date, and return requests, one request at a time,
\* while the clock advances
NextApi ==
  \/ \E p \in SeqProcs :
       \/ \E u \in Users, b \in BookIds, due \in {NoDate} \cup PastDues \cup ExplicitDues :
            \/ RestBorrowBook(p, u, b, due)
            \/ GraphqlBorrowBook(p, u, b, due)
       \/ BorrowStep(p)
       \/ ReturnRequest(p)
       \/ ReturnStep(p)
       \/ Finish(p)
  \/ Tick

SpecApi == Init /\ [][NextApi]_vars

\* SpecUsers: the account requests of the REST and GraphQL interfaces, one
\* request at a time
NextUsers ==
  \E p \in SeqProcs :
    \/ \E u \in Users, input \in UserInputs :
         \/ RestUpdateProfile(p, u, input)
         \/ GraphqlUpdateProfile(p, u, input)
    \/ \E u \in Users, t \in Users, input \in UserInputs :
         \/ RestUpdateUser(p, u, t, input)
         \/ GraphqlUpdateUser(p, u, t, input)
    \/ \E u \in Users, cur \in Passwords, new \in Passwords :
         ChangePassword(p, u, cur, new)
    \/ \E u \in Users, t \in Users : DeleteUser(p, u, t)
    \/ UserSaveDoc(p)
    \/ Finish(p)

SpecUsers == Init /\ [][NextUsers]_vars

\* SpecReports: the overdue reports, asked between renew and return requests
\* that run one at a time
ReportRequest(p) ==
  \E u \in Users :
    \/ GetOverdueBooks(p, u)
    \/ GetDashboardStats(p, u)
    \/ GetActiveMembersReport(p, u)

NextReports ==
  \/ NextRenewSeq
  \/ \E p \in SeqProcs : ReportRequest(p)

SpecReports == Init /\ [][NextReports]_vars

----------------------------------------------------------------------------
(* Properties *)

Done(p, op) == pc[p] = "done" /\ loc[p].op = op
Succeeded(p, op) == Done(p, op) /\ loc[p].outcome = "OK"
ActiveCount(b) == Cardinality(ActiveOfBook(b))

\* C1: two borrow requests by different users racing for the same book, each
\* having read availableCopies = 1, never both create a LoanRecord
C1_LastCopyBorrowedOnce ==
  \A p, q \in Procs :
    ~ ( /\ p # q
        /\ loc[p].op = "borrow" /\ loc[q].op = "borrow"
        /\ loc[p].book = loc[q].book
        /\ loc[p].user # loc[q].user
        /\ loc[p].bookDoc.availableCopies = 1
        /\ loc[q].bookDoc.availableCopies = 1
        /\ pc[p] = "b_save" /\ pc[q] = "b_save" )

\* C2: two return requests for the same LoanRecord never both succeed
C2_LoanReturnedOnce ==
  \A p, q \in Procs :
    ~ ( /\ p # q
        /\ Succeeded(p, "return") /\ Succeeded(q, "return")
        /\ loc[p].rec = loc[q].rec )

\* C3: for every book, 0 <= availableCopies <= totalCopies in every state
\* reached by interleaved borrow and return requests
C3_CopiesInRange ==
  \A b \in Books :
    /\ 0 <= books[b].availableCopies
    /\ books[b].availableCopies <= books[b].totalCopies

\* a borrow and a return of the same title are both between their database
\* operations, each about to save the book document it loaded
C3_Witness ==
  \E p, q \in Procs :
    /\ pc[p] = "b_save" /\ pc[q] = "r_bsave"
    /\ loc[p].book = loc[q].book
    /\ loc[p].bookNew # loc[q].bookNew

\* C4: with no request in flight, availableCopies of every book equals
\* totalCopies minus the number of its Borrowed or Overdue LoanRecords
C4_QuiescentCopiesMatchLoans ==
  Quiescent =>
    \A b \in Books :
      books[b].availableCopies = books[b].totalCopies - ActiveCount(b)

\* C5: the LoanRecord write and the availableCopies write of a borrow or a
\* return take effect as one step: in every state, also between the database
\* operations of a single request, every book's availableCopies accounts for
\* each of its Borrowed or Overdue records
C5_LoanAndCopiesWrittenTogether ==
  \A b \in Books :
    books[b].totalCopies - books[b].availableCopies = ActiveCount(b)

\* C6: no user ever has more than 5 Borrowed or Overdue LoanRecords
C6_BorrowLimitKept ==
  \A u \in Users : Cardinality(ActiveOfUser(u)) <= BorrowLimit

\* C7: no (user, book) pair ever has more than one Borrowed or Overdue
\* LoanRecord
C7_OneLoanPerUserAndBook ==
  \A u \in Users, b \in Books : Cardinality(ActiveOfPair(u, b)) <= 1

\* C8: a successful return of a loan that is overdue at the moment of return
\* leaves the record Returned with fine.amount = the days between due date and
\* return date, rounded up, times 1
C8_OverdueReturnFined ==
  \A p \in Procs :
    ( /\ Succeeded(p, "return")
      /\ loc[p].recDoc.status \in Active
      /\ loc[p].recDoc.dueDate < loc[p].recNew.returnDate )
    => /\ records[loc[p].rec].status = "Returned"
       /\ records[loc[p].rec].fine =
            CeilDiv(loc[p].recNew.returnDate - loc[p].recDoc.dueDate, DAY) * 1

\* C9: of two returns of the same loan made one after the other by its owner
\* or an admin, the first succeeds and the second fails with AlreadyReturned,
\* and availableCopies of the book grows by exactly one over both: a return
\* of a Borrowed or Overdue loan passes the checks, marks the record Returned,
\* then adds one to the book's availableCopies and succeeds; a return of a
\* Returned loan fails with AlreadyReturned and changes neither collection
C9_Step(p) ==
  LET id == loc'[p].rec
      mayReturn == id \in RecIds /\ (records[id].user = loc'[p].user
                                     \/ Role(loc'[p].user) = "Admin")
  IN
  /\ ( pc[p] = "idle" /\ pc'[p] # "idle" /\ loc'[p].op = "return" /\ mayReturn )
     => IF records[id].status \in Active
        THEN pc'[p] = "r_save"
        ELSE /\ pc'[p] = "done" /\ loc'[p].outcome = "AlreadyReturned"
             /\ UNCHANGED <<books, records>>
  /\ ( pc[p] = "r_save" /\ pc'[p] # "r_save" )
     => /\ pc'[p] = "r_book"
        /\ records'[loc[p].rec].status = "Returned"
        /\ \A i \in RecIds \ {loc[p].rec} : records'[i] = records[i]
        /\ UNCHANGED books
  /\ ( pc[p] = "r_book" /\ pc'[p] # "r_book" )
     => pc'[p] = "r_bsave" /\ UNCHANGED <<books, records>>
  /\ ( pc[p] = "r_bsave" /\ pc'[p] # "r_bsave" )
     => /\ pc'[p] = "done" /\ loc'[p].outcome = "OK"
        /\ books'[loc[p].book].availableCopies =
             books[loc[p].book].availableCopies + 1
        /\ \A b \in Books \ {loc[p].book} : books'[b] = books[b]
        /\ UNCHANGED records

C9_SequentialReturnTwice == [][\A p \in Procs : C9_Step(p)]_vars

\* the second of two returns of a loan has failed with AlreadyReturned
C9_Witness ==
  \E p \in Procs :
    /\ Done(p, "return") /\ loc[p].outcome = "AlreadyReturned"
    /\ records[loc[p].rec].status = "Returned"

\* slot p takes a step of a borrow request for an existing active book while
\* the requesting user has 5 loans with status Borrowed or Overdue
BorrowAtLimit(p) ==
  LET l == IF pc[p] = "idle" THEN loc'[p] ELSE loc[p]
  IN  /\ pc'[p] # pc[p]
      /\ pc[p] \in {"idle", "b_find", "b_count"}
      /\ l.op = "borrow"
      /\ l.book \in Books /\ books[l.book].isActive
      /\ Cardinality(ActiveOfUser(l.user)) = BorrowLimit

\* C10 as stated: a borrow by a user with 5 Borrowed or Overdue loans, of an
\* existing active book, fails with BorrowLimitReached whatever the book's
\* availableCopies: no step of it responds anything else
C10_LimitWhateverAvailability ==
  [][\A p \in Procs :
       (BorrowAtLimit(p) /\ pc'[p] = "done")
       => loc'[p].outcome = "BorrowLimitReached"]_vars

\* C10 amended: such a borrow fails and creates no LoanRecord; it fails with
\* Unavailable when the book's availableCopies = 0, with DuplicateLoan when
\* availableCopies > 0 and the user holds an unreturned loan of the book, and
\* with BorrowLimitReached otherwise
C10_Step(p) ==
  LET l == IF pc[p] = "idle" THEN loc'[p] ELSE loc[p]
      refused(outcome) == pc'[p] = "done" /\ loc'[p].outcome = outcome
  IN  BorrowAtLimit(p) =>
        /\ UNCHANGED <<books, records>>
        /\ CASE pc[p] = "idle" ->
                  IF books[l.book].availableCopies = 0
                  THEN refused("Unavailable") ELSE pc'[p] = "b_find"
             [] pc[p] = "b_find" ->
                  IF ActiveOfPair(l.user, l.book) # {}
                  THEN refused("DuplicateLoan") ELSE pc'[p] = "b_count"
             [] pc[p] = "b_count" -> refused("BorrowLimitReached")

C10_LimitAfterAvailabilityAndDuplicate == [][\A p \in Procs : C10_Step(p)]_vars

\* a user with 5 loans was refused a title that has a copy available
C10_Witness ==
  \E p \in Procs :
    /\ Done(p, "borrow") /\ loc[p].outcome = "BorrowLimitReached"
    /\ Cardinality(ActiveOfUser(loc[p].user)) = BorrowLimit
    /\ loc[p].bookDoc.availableCopies > 0

\* slot p begins a request for operation op
Begins(p, op) == pc[p] = "idle" /\ pc'[p] # "idle" /\ loc'[p].op = op
\* slot p leaves the database operation at label
Leaves(p, label) == pc[p] = label /\ pc'[p] # label
\* slot p responds with outcome
Responds(p, outcome) == pc'[p] = "done" /\ loc'[p].outcome = outcome

\* C11: renewalCount of every LoanRecord is between 0 and 3 in every state
\* reached by interleaved renew and return requests
C11_RenewalCountInRange ==
  \A i \in RecIds :
    records[i].renewalCount >= 0 /\ records[i].renewalCount <= 3

\* two renews of the same loan are both about to save the third renewal
C11_Witness ==
  \E p, q \in Procs :
    /\ p # q
    /\ pc[p] = "n_save" /\ pc[q] = "n_save"
    /\ loc[p].rec = loc[q].rec
    /\ loc[p].recNew.renewalCount = 3 /\ loc[q].recNew.renewalCount = 3

\* C12: a renew by the owner of a Borrowed or Overdue loan with renewalCount 3
\* fails with RenewalLimitReached and leaves the store unchanged; with
\* renewalCount below 3 it goes on to save, and the save succeeds and adds
\* one to renewalCount: of four renews in a row three succeed, the fourth fails
C12_Step(p) ==
  LET id == loc'[p].rec
  IN
  /\ ( /\ Begins(p, "renew") /\ id \in RecIds
       /\ records[id].user = loc'[p].user /\ records[id].status \in Active )
     => IF records[id].renewalCount = 3
        THEN /\ Responds(p, "RenewalLimitReached")
             /\ UNCHANGED <<books, records>>
        ELSE pc'[p] = "n_save"
  /\ Leaves(p, "n_save")
     => /\ Responds(p, "OK")
        /\ records'[loc[p].rec].renewalCount = records[loc[p].rec].renewalCount + 1

C12_FourthRenewRefused == [][\A p \in Procs : C12_Step(p)]_vars

\* a renew of a loan renewed three times was refused
C12_Witness ==
  \E p \in Procs :
    /\ Done(p, "renew") /\ loc[p].outcome = "RenewalLimitReached"
    /\ records[loc[p].rec].renewalCount = 3
    /\ records[loc[p].rec].status \in Active

\* C13: no step changes the status of a LoanRecord whose status is Returned
\* or Lost
C13_TerminalStatusKept ==
  [][\A i \in RecIds :
       records[i].status \in {"Returned", "Lost"}
       => records'[i].status = records[i].status]_vars

\* C14: a successful borrow creates exactly one LoanRecord, with status
\* Borrowed, for (user, book), takes exactly one from the book's
\* availableCopies and adds exactly one to its borrowCount, and leaves every
\* other book and every earlier LoanRecord unchanged
C14_Step(p) ==
  LET b == loc[p].book
  IN
  /\ Leaves(p, "b_create")
     => /\ Len(records') = Len(records) + 1
        /\ \A i \in RecIds : records'[i] = records[i]
        /\ records'[Len(records')].status = "Borrowed"
        /\ records'[Len(records')].user = loc[p].user
        /\ records'[Len(records')].book = b
        /\ UNCHANGED books
  /\ Leaves(p, "b_save")
     => /\ Responds(p, "OK")
        /\ books'[b].availableCopies = books[b].availableCopies - 1
        /\ books'[b].borrowCount = books[b].borrowCount + 1
        /\ books'[b].totalCopies = books[b].totalCopies
        /\ \A c \in Books \ {b} : books'[c] = books[c]
        /\ UNCHANGED records

C14_BorrowEffect == [][\A p \in Procs : C14_Step(p)]_vars

\* C15: a borrow of an existing active book fails with Unavailable exactly
\* when the book's availableCopies is 0, and then creates no LoanRecord; the
\* save of a borrow that found one copy leaves availableCopies 0
C15_Step(p) ==
  LET b == loc'[p].book
  IN
  /\ ( Begins(p, "borrow") /\ b \in Books /\ books[b].isActive )
     => /\ Responds(p, "Unavailable") <=> books[b].availableCopies = 0
        /\ Responds(p, "Unavailable") => UNCHANGED <<books, records>>
  /\ ( Leaves(p, "b_save") /\ loc[p].bookDoc.availableCopies = 1 )
     => books'[loc[p].book].availableCopies = 0

C15_UnavailableAtZero == [][\A p \in Procs : C15_Step(p)]_vars

\* a title with a single copy is on loan to one user, and another user's
\* borrow of it was refused as Unavailable
C15_Witness ==
  \E p \in Procs :
    /\ Done(p, "borrow") /\ loc[p].outcome = "Unavailable"
    /\ books[loc[p].book].totalCopies = 1
    /\ books[loc[p].book].availableCopies = 0
    /\ \E i \in ActiveOfBook(loc[p].book) : records[i].user # loc[p].user

\* C16: a return of an existing loan by a user who is neither its owner nor
\* an Admin fails with Forbidden and leaves the LoanRecord and the book
\* unchanged; no such request gets past the checks
C16_Step(p) ==
  LET id == loc'[p].rec
      u  == loc'[p].user
  IN  ( Begins(p, "return") /\ id \in RecIds )
      => IF records[id].user # u /\ Role(u) # "Admin"
         THEN Responds(p, "Forbidden") /\ UNCHANGED <<books, records>>
         ELSE ~Responds(p, "Forbidden")

C16_ReturnByOwnerOrAdmin == [][\A p \in Procs : C16_Step(p)]_vars

\* a member's return of another user's unreturned loan was refused
C16_Witness ==
  \E p \in Procs :
    /\ Done(p, "return") /\ loc[p].outcome = "Forbidden"
    /\ Role(loc[p].user) = "Member"
    /\ records[loc[p].rec].user # loc[p].user
    /\ records[loc[p].rec].status \in Active

\* C17: a renew of an existing loan by anyone but its owner, an Admin
\* included, fails with Forbidden and leaves the store unchanged
C17_Step(p) ==
  LET id == loc'[p].rec
      u  == loc'[p].user
  IN  ( Begins(p, "renew") /\ id \in RecIds )
      => IF records[id].user # u
         THEN Responds(p, "Forbidden") /\ UNCHANGED <<books, records>>
         ELSE ~Responds(p, "Forbidden")

C17_RenewByOwnerOnly == [][\A p \in Procs : C17_Step(p)]_vars

\* an Admin's renew of a member's renewable loan was refused
C17_Witness ==
  \E p \in Procs :
    /\ Done(p, "renew") /\ loc[p].outcome = "Forbidden"
    /\ Role(loc[p].user) = "Admin"
    /\ records[loc[p].rec].status \in Active
    /\ records[loc[p].rec].renewalCount < 3

\* C18: a successful renew adds exactly 14 days to dueDate and exactly 1 to
\* renewalCount, and leaves the record's user, book, borrowDate, returnDate
\* and fine, every other record and every book unchanged
C18_Step(p) ==
  LET id == loc[p].rec
  IN  Leaves(p, "n_save")
      => /\ Responds(p, "OK")
         /\ records'[id].dueDate = records[id].dueDate + 14 * DAY
         /\ records'[id].renewalCount = records[id].renewalCount + 1
         /\ \A f \in {"user", "book", "borrowDate", "returnDate", "fine"} :
              records'[id][f] = records[id][f]
         /\ \A i \in RecIds \ {id} : records'[i] = records[i]
         /\ UNCHANGED books

C18_RenewEffect == [][\A p \in Procs : C18_Step(p)]_vars

\* C19: a successful renew of a loan that is overdue when it is renewed
\* (status Overdue, or status Borrowed with the due date passed) leaves the
\* loan with status Overdue
C19_Step(p) ==
  LET id == loc'[p].rec
  IN
  /\ ( /\ Begins(p, "renew") /\ pc'[p] = "n_save"
       /\ \/ records[id].status = "Overdue"
          \/ records[id].status = "Borrowed" /\ records[id].dueDate < now )
     => loc'[p].recNew.status = "Overdue"
  /\ Leaves(p, "n_save")
     => records'[loc[p].rec].status = loc[p].recNew.status

C19_OverdueKeptByRenew == [][\A p \in Procs : C19_Step(p)]_vars

\* C20: every LoanRecord whose stored status is Overdue has a due date before
\* the current time and no return date
C20_OverdueMeansPastDue ==
  \A i \in RecIds :
    records[i].status = "Overdue"
    => records[i].dueDate < now /\ records[i].returnDate = NoDate

\* the loans that are overdue: stored as Overdue, or Borrowed and past due
OverdueLoans ==
  {i \in RecIds : \/ records[i].status = "Overdue"
                  \/ records[i].status = "Borrowed" /\ records[i].dueDate < now}

\* C21: the overdue listing, the dashboard's overdue count and the members
\* report's overdueBooks count each count exactly the records with status
\* Overdue or with status Borrowed and dueDate < now
C21_Step(p) ==
  /\ ( Begins(p, "overdue") /\ Responds(p, "OK") )
     => /\ loc'[p].report.ids = OverdueLoans
        /\ loc'[p].report.total = Cardinality(OverdueLoans)
  /\ ( Begins(p, "dashboard") /\ Responds(p, "OK") )
     => loc'[p].report.total = Cardinality(OverdueLoans)
  /\ ( Begins(p, "members") /\ Responds(p, "OK") )
     => \A u \in Users :
          loc'[p].report.perUser[u] =
            Cardinality({i \in OverdueLoans : records[i].user = u})

C21_OverdueReportsAgree == [][\A p \in Procs : C21_Step(p)]_vars

\* C22: deleteBook deactivates a book only when the book it read has
\* availableCopies = totalCopies, and in every state reached by interleaved
\* deleteBook, borrow and return requests no inactive book has a LoanRecord
\* with status Borrowed or Overdue
C22_NoLoanOfInactiveBook ==
  /\ \A p \in Procs :
       pc[p] = "db_save"
       => loc[p].bookDoc.availableCopies = loc[p].bookDoc.totalCopies
  /\ \A b \in Books : ~books[b].isActive => ActiveOfBook(b) = {}

\* C23 as stated: availableCopies of a book changes only in the book save of
\* a successful borrow or return
C23_CopiesChangedByLoansOnly ==
  [][\A b \in Books :
       books'[b].availableCopies # books[b].availableCopies
       => \E p \in Procs :
            /\ loc[p].book = b
            /\ Leaves(p, "b_save") \/ Leaves(p, "r_bsave")]_vars

\* C23 amended: availableCopies of a book changes only in the book save of a
\* successful borrow or return, or of an updateBook that changes totalCopies;
\* deleteBook, renew and failed requests leave it unchanged
C23_CopiesChangedByLoansOrUpdate ==
  [][\A b \in Books :
       books'[b].availableCopies # books[b].availableCopies
       => \E p \in Procs :
            /\ loc[p].book = b
            /\ \/ Leaves(p, "b_save")
               \/ Leaves(p, "r_bsave")
               \/ /\ Leaves(p, "ub_save")
                  /\ loc[p].bookNew.totalCopies # loc[p].bookDoc.totalCopies]_vars

\* an updateBook that changed totalCopies of a title with a copy on loan has
\* moved its availableCopies
C23_Witness ==
  \E p \in Procs :
    /\ Succeeded(p, "update")
    /\ loc[p].bookNew.availableCopies # loc[p].bookDoc.availableCopies
    /\ books[loc[p].book].availableCopies = loc[p].bookNew.availableCopies
    /\ ActiveOfBook(loc[p].book) # {}

\* C24: for every book 0 <= availableCopies <= totalCopies in every state
\* reached when updateBook requests that change totalCopies are interleaved
\* with borrow and return requests, each save writing only the fields its
\* request modified
C24_CopiesInRangeUnderUpdate ==
  \A b \in Shelf :
    books[b].availableCopies \in 0 .. books[b].totalCopies

\* C25: a borrow of a missing or inactive book, of a book with no copy left,
\* of a book the user already holds, or by a user at the limit fails with
\* NotFound, Unavailable, DuplicateLoan or BorrowLimitReached; a return of a
\* missing loan, by a user who may not return it, or of a returned loan fails
\* with NotFound, Forbidden or AlreadyReturned; and every borrow or return
\* that fails leaves every LoanRecord and every book unchanged
C25_Step(p) ==
  LET l == IF pc[p] = "idle" THEN loc'[p] ELSE loc[p]
      b == l.book
      id == l.rec
      u == l.user
  IN
  /\ Begins(p, "borrow")
     => /\ (b \notin Books \/ ~books[b].isActive) => Responds(p, "NotFound")
        /\ (b \in Books /\ books[b].isActive /\ books[b].availableCopies = 0)
           => Responds(p, "Unavailable")
  /\ ( Leaves(p, "b_find") /\ ActiveOfPair(u, b) # {} )
     => Responds(p, "DuplicateLoan")
  /\ ( Leaves(p, "b_count") /\ Cardinality(ActiveOfUser(u)) >= 5 )
     => Responds(p, "BorrowLimitReached")
  /\ Begins(p, "return")
     => /\ id \notin RecIds => Responds(p, "NotFound")
        /\ (id \in RecIds /\ records[id].user # u /\ Role(u) # "Admin")
           => Responds(p, "Forbidden")
        /\ ( /\ id \in RecIds /\ (records[id].user = u \/ Role(u) = "Admin")
             /\ records[id].status = "Returned" )
           => Responds(p, "AlreadyReturned")
  /\ ( /\ pc[p] # "done" /\ pc'[p] = "done"
       /\ loc'[p].op \in {"borrow", "return"} /\ loc'[p].outcome # "OK" )
     => UNCHANGED <<books, records>>

C25_FailedRequestsChangeNothing == [][\A p \in Procs : C25_Step(p)]_vars

\* a borrow of a deactivated title, lent and returned before, was refused
C25_Witness ==
  \E p \in Procs :
    /\ Done(p, "borrow") /\ loc[p].outcome = "NotFound"
    /\ loc[p].book \in Books /\ ~books[loc[p].book].isActive
    /\ \E i \in RecIds :
         records[i].book = loc[p].book /\ records[i].status = "Returned"

\* C26: an updateBook that sets totalCopies to n is rejected, the book
\* unchanged, when n is below the book's borrowed count totalCopies -
\* availableCopies; otherwise its save leaves the book with totalCopies = n
\* and availableCopies = n minus the borrowed count the book had before it
C26_Step(p) ==
  LET b == loc'[p].book
      n == loc'[p].bookNew.totalCopies
  IN
  /\ ( Begins(p, "update") /\ Role(loc'[p].user) = "Admin" /\ b \in Books )
     => IF n < books[b].totalCopies - books[b].availableCopies
        THEN Responds(p, "CapacityExceeded") /\ UNCHANGED books
        ELSE pc'[p] = "ub_save"
  /\ Leaves(p, "ub_save")
     => /\ Responds(p, "OK")
        /\ books'[loc[p].book].totalCopies = loc[p].bookNew.totalCopies
        /\ books'[loc[p].book].totalCopies - books'[loc[p].book].availableCopies
             = books[loc[p].book].totalCopies - books[loc[p].book].availableCopies

C26_UpdateKeepsBorrowedCount == [][\A p \in Procs : C26_Step(p)]_vars

\* the LoanRecords ever created for a book
RecordsOfBook(b) == {i \in RecIds : records[i].book = b}

\* C27: when requests run one at a time, between requests every book has
\* availableCopies = totalCopies - (its Borrowed or Overdue LoanRecords) and
\* borrowCount = the number of LoanRecords ever created for it
C27_SequentialBookkeeping ==
  Quiescent =>
    \A b \in Books :
      /\ books[b].availableCopies = books[b].totalCopies - ActiveCount(b)
      /\ books[b].borrowCount = Cardinality(RecordsOfBook(b))

\* between requests, a title whose totalCopies was updated has one loan
\* returned and another one running
C27_Witness ==
  /\ Quiescent
  /\ \E b \in Shelf :
       /\ books[b].totalCopies # InitTotal(b)
       /\ ActiveOfBook(b) # {}
       /\ \E i \in RecordsOfBook(b) : records[i].status = "Returned"

\* C28: in every state reached by interleaved borrow, return and updateBook
\* requests, no book has more Borrowed or Overdue LoanRecords than
\* totalCopies
C28_LoansWithinTotalCopies ==
  \A b \in Books : ActiveCount(b) <= books[b].totalCopies

\* the answers a borrow request can get
BorrowOutcomes == {"OK", "NotFound", "Unavailable", "DuplicateLoan",
                   "BorrowLimitReached", "ValidationError"}

\* C29: from the same state the REST handler and the GraphQL mutation reach
\* the same outcome for the same request: whenever both answer a borrow
\* request (user, book id, optional due date) at once, they give the same
\* answer
C29_RestAndGraphqlAgree ==
  \A p \in SeqProcs, u \in Users, b \in BookIds,
     due \in {NoDate} \cup PastDues \cup ExplicitDues :
    \A o1, o2 \in BorrowOutcomes :
      ( /\ ENABLED (RestBorrowBook(p, u, b, due) /\ Responds(p, o1))
        /\ ENABLED (GraphqlBorrowBook(p, u, b, due) /\ Responds(p, o2)) )
      => o1 = o2

\* C30: the role and the isActive flag of an account change only in the
\* save of a request made by a user whose role is Admin
C30_RoleAndStatusChangedByAdminOnly ==
  [][\A v \in Users :
       ( \/ users'[v].role # users[v].role
         \/ users'[v].isActive # users[v].isActive )
       => \E p \in Procs :
            /\ Leaves(p, "u_save")
            /\ loc[p].target = v
            /\ Role(loc[p].user) = "Admin"]_vars

====
